---- MODULE Spec2Model ----
(***************************************************************************)
(* Model of scripts/phoenix_downloader.py (class PhoenixDownloader).       *)
(*                                                                         *)
(* Python strings are modelled as sequences of one-character strings, so   *)
(* that split(','), strip(), lower() and glob matching are computed the    *)
(* way the code computes them.  External collaborators (the CivitAI API,   *)
(* aria2c, sha256sum, huggingface-cli) are nondeterministic choices over   *)
(* the outcomes the code distinguishes: a request that fails or answers,    *)
(* an exit status, a digest printed first on sha256sum's line.  Logging,   *)
(* debug_mode and the tokens change only what is printed and the command   *)
(* lines, and are left out.                                                *)
(***************************************************************************)
EXTENDS Integers, Sequences, FiniteSets, TLC

VARIABLES
    op,             \* which entry point runs: "hf" or "civitai"
    download_list,  \* the comma-separated identifier list (repos_list / download_list)
    pc,             \* position of the running entry point
    run,            \* number of the current invocation (1-based)
    ids,            \* the parsed identifier list (ids / repos)
    idx,            \* index into ids of the identifier the loop is at
    successful,     \* tally of process_civitai_downloads
    failed,         \* tally of process_civitai_downloads
    model_info,     \* result of get_civitai_model_info for the last resolved identifier
    steps,          \* external calls made so far for the last resolved identifier
    outcomes,       \* per identifier of this invocation: what was called and what was returned
    models,         \* the tree under STORAGE_ROOT/models
    staging,        \* the files of download_tmp_dir, by filename
    accepted,       \* <<identifier, filename>> downloaded and accepted by earlier invocations
    moved,          \* filenames an organiser moved from staging into the models tree
    returned        \* return value of the entry point, once it returned

vars == <<op, download_list, pc, run, ids, idx, successful, failed, model_info,
          steps, outcomes, models, staging, accepted, moved, returned>>

----------------------------------------------------------------------------
(* Bounds *)

MaxListLen == 3
MaxRuns == 2

----------------------------------------------------------------------------
(* Strings *)

ListChars == {"a", "b", " ", ","}

Whitespace == {" ", "\t", "\n"}

RECURSIVE StringsOfLen(_)
StringsOfLen(n) ==
    IF n = 0 THEN {<<>>}
    ELSE {<<c>> \o s : c \in ListChars, s \in StringsOfLen(n - 1)}

Strings(n) == UNION {StringsOfLen(k) : k \in 0..n}

\* "a, ,b" and " b ,,a"
ExampleLists ==
    { <<"a", ",", " ", ",", "b">>,
      <<" ", "b", " ", ",", ",", "a">> }

DownloadLists == Strings(MaxListLen) \cup ExampleLists

DropHead(s, n) == SubSeq(s, n + 1, Len(s))

\* str.split(','): cut at every comma, keeping empty pieces
RECURSIVE Split(_)
Split(s) ==
    IF \A i \in 1..Len(s) : s[i] # "," THEN <<s>>
    ELSE LET k == CHOOSE i \in 1..Len(s) :
                      s[i] = "," /\ \A j \in 1..(i - 1) : s[j] # ","
         IN <<SubSeq(s, 1, k - 1)>> \o Split(DropHead(s, k))

RECURSIVE LStrip(_)
LStrip(s) ==
    IF s # <<>> /\ Head(s) \in Whitespace THEN LStrip(Tail(s)) ELSE s

RECURSIVE RStrip(_)
RStrip(s) ==
    IF s # <<>> /\ s[Len(s)] \in Whitespace THEN RStrip(SubSeq(s, 1, Len(s) - 1)) ELSE s

\* str.strip()
Strip(s) == RStrip(LStrip(s))

\* [x.strip() for x in lst.split(',') if x.strip()]
RECURSIVE StripAndFilter(_)
StripAndFilter(parts) ==
    IF parts = <<>> THEN <<>>
    ELSE (IF Strip(Head(parts)) # <<>> THEN <<Strip(Head(parts))>> ELSE <<>>)
         \o StripAndFilter(Tail(parts))

\* the comprehension without its `if x.strip()`
ParseIdsKeepBlank(s) == [i \in 1..Len(Split(s)) |-> Strip(Split(s)[i])]

ParseIds(s) == StripAndFilter(Split(s))

\* str.lower() on the hexadecimal alphabet used here
LowerChar(c) ==
    CASE c = "A" -> "a"
      [] c = "B" -> "b"
      [] c = "C" -> "c"
      [] c = "D" -> "d"
      [] OTHER -> c

Lower(s) == [i \in 1..Len(s) |-> LowerChar(s[i])]

----------------------------------------------------------------------------
(* The filesystem *)

\* Filenames the API may name: "a", and "[a]", which pathlib reads as a pattern
FileNames == { <<"a">>, <<"[", "a", "]">> }

\* fnmatch.translate: index of the "]" closing the class opened at pat[1] = "[", 0 if none
ClassEnd(pat) ==
    LET j0 == IF Len(pat) >= 2 /\ pat[2] = "!" THEN 3 ELSE 2
        j1 == IF Len(pat) >= j0 /\ pat[j0] = "]" THEN j0 + 1 ELSE j0
        closing == {j \in j1..Len(pat) : pat[j] = "]"}
    IN IF closing = {} THEN 0
       ELSE CHOOSE j \in closing : \A k \in closing : j <= k

\* whether character c is in the class pat[1..e] = "[...]" (ranges are not modelled:
\* no filename here holds "-")
InClass(pat, e, c) ==
    LET negated == pat[2] = "!"
        first == IF negated THEN 3 ELSE 2
        members == {pat[j] : j \in first..(e - 1)}
    IN IF negated THEN c \notin members ELSE c \in members

\* fnmatch of one path component, as pathlib's wildcard selector applies it
RECURSIVE FnMatch(_, _)
FnMatch(pat, name) ==
    IF pat = <<>> THEN name = <<>>
    ELSE LET c == Head(pat) IN
         IF c = "*"
         THEN \E k \in 0..Len(name) : FnMatch(Tail(pat), DropHead(name, k))
         ELSE IF c = "?"
         THEN name # <<>> /\ FnMatch(Tail(pat), Tail(name))
         ELSE IF c = "[" /\ ClassEnd(pat) > 0
         THEN /\ name # <<>>
              /\ InClass(pat, ClassEnd(pat), Head(name))
              /\ FnMatch(DropHead(pat, ClassEnd(pat)), Tail(name))
         ELSE name # <<>> /\ Head(name) = c /\ FnMatch(Tail(pat), Tail(name))

File(dirs, name) == [dirs |-> dirs, name |-> name, kind |-> "file"]
Dir(dirs, name) == [dirs |-> dirs, name |-> name, kind |-> "dir"]

\* STORAGE_ROOT/models before the first invocation: missing; holding "a" two levels
\* down; holding "[a]" one level down; holding only a directory named "a"
ModelTrees ==
    { [root |-> FALSE, entries |-> {}],
      [root |-> TRUE, entries |-> {File(<<"checkpoints", "sub">>, <<"a">>)}],
      [root |-> TRUE, entries |-> {File(<<"loras">>, <<"[", "a", "]">>)}],
      [root |-> TRUE, entries |-> {Dir(<<>>, <<"a">>)}] }

\* _file_exists_in_models, had it also searched download_tmp_dir
FileExistsInModelsOrStaging(tree, stage, filename) ==
    \/ tree.root /\ \E e \in tree.entries : FnMatch(filename, e.name) /\ e.kind = "file"
    \/ \E f \in DOMAIN stage : FnMatch(filename, f) /\ stage[f].state # "absent"

\* _file_exists_in_models: models_dir.rglob(filename) yields every path under the
\* tree whose last component matches the pattern; a missing root yields nothing
\* (the staging directory is not under STORAGE_ROOT/models and is not searched)
FileExistsInModels(tree, stage, filename) ==
    tree.root /\ \E e \in tree.entries : FnMatch(filename, e.name) /\ e.kind = "file"

Absent == [state |-> "absent", digest |-> <<>>]
Partial == [state |-> "partial", digest |-> <<>>]
Complete(d) == [state |-> "complete", digest |-> d]

\* digests sha256sum may print for a downloaded file
Digests == { <<"a", "b">>, <<"c", "d">> }

----------------------------------------------------------------------------
(* The metadata resolver *)

\* SHA256 values the API may publish
RemoteHashes == { <<"A", "B">>, <<"c", "d">> }

NoField == [present |-> FALSE, val |-> <<>>]
Field(v) == [present |-> TRUE, val |-> v]

\* What session.get can come back with: a RequestException (timeout, connection
\* error, non-2xx status), a 2xx status other than 200, or a 200 JSON body
Responses ==
    { [kind |-> k, files |-> "missing", name |-> NoField, hashes |-> FALSE, sha |-> NoField]
        : k \in {"request_error", "not_200"} }
    \cup
    { [kind |-> "ok", files |-> f, name |-> NoField, hashes |-> FALSE, sha |-> NoField]
        : f \in {"missing", "empty"} }
    \cup
    { [kind |-> "ok", files |-> "list", name |-> n, hashes |-> h.hashes, sha |-> h.sha]
        : n \in {NoField, Field(<<>>)} \cup {Field(f) : f \in FileNames},
          h \in { [hashes |-> FALSE, sha |-> NoField], [hashes |-> TRUE, sha |-> NoField] }
                \cup { [hashes |-> TRUE, sha |-> Field(x)] : x \in RemoteHashes } }

NoInfo == [none |-> TRUE, filename |-> NoField, hash |-> <<>>]

\* file_info.get('hashes', {}).get('SHA256', '').lower()
HashOf(resp) == Lower(IF resp.hashes /\ resp.sha.present THEN resp.sha.val ELSE <<>>)

\* get_civitai_model_info
GetCivitaiModelInfo(resp) ==
    IF resp.kind = "ok" /\ resp.files = "list"
    THEN [none |-> FALSE, filename |-> resp.name, hash |-> HashOf(resp)]
    ELSE NoInfo

\* the metadata test, had it not looked at the filename
UsableAnyFilename(info) == ~info.none

\* not (not model_info or not model_info['filename'])
Usable(info) == ~info.none /\ info.filename.present /\ info.filename.val # <<>>

----------------------------------------------------------------------------
(* The integrity verifier *)

\* sha256sum on a staged file: fails on a missing file or an I/O error, otherwise
\* prints the digest of the contents
Sha256sum(file, io_ok) ==
    IF file.state = "absent" \/ ~io_ok
    THEN [ok |-> FALSE, stdout |-> <<>>]
    ELSE [ok |-> TRUE, stdout |-> file.digest]

\* _verify_checksum
VerifyChecksum(file, expected_hash, io_ok) ==
    LET result == Sha256sum(file, io_ok)
    IN IF result.ok THEN Lower(result.stdout) = Lower(expected_hash) ELSE FALSE

----------------------------------------------------------------------------
(* The record of external calls *)

NoResponse ==
    [kind |-> "none", files |-> "missing", name |-> NoField, hashes |-> FALSE, sha |-> NoField]

\* one external call: what was called, whether it succeeded (a usable result, a file
\* found, a zero exit), and what it received or printed
Call(call, ok) == [call |-> call, ok |-> ok, resp |-> NoResponse, stdout |-> <<>>]
ResolveCall(resp, ok) == [call |-> "resolve", ok |-> ok, resp |-> resp, stdout |-> <<>>]
Sha256sumCall(result) ==
    [call |-> "sha256sum", ok |-> result.ok, resp |-> NoResponse, stdout |-> result.stdout]

----------------------------------------------------------------------------
(* Initial state: a fresh PhoenixDownloader and one entry point about to run *)

Init ==
    /\ op \in {"hf", "civitai"}
    /\ download_list \in DownloadLists
    /\ pc = "start"
    /\ run = 1
    /\ ids = <<>>
    /\ idx = 0
    /\ successful = 0
    /\ failed = 0
    /\ model_info = NoInfo
    /\ steps = <<>>
    /\ outcomes = <<>>
    /\ models \in (IF op = "civitai" THEN ModelTrees ELSE {[root |-> FALSE, entries |-> {}]})
    /\ staging = [f \in FileNames |-> Absent]
    /\ accepted = {}
    /\ moved = {}
    /\ returned = "none"

----------------------------------------------------------------------------
(* process_civitai_downloads and download_civitai_model *)

\* the tally, had every identifier been counted as successful
TallyAllSuccessful(ret) ==
    /\ successful' = successful + 1
    /\ failed' = failed

\* successful += 1 / failed += 1, on the value download_civitai_model returned
Tally(ret) ==
    /\ successful' = (IF ret THEN successful + 1 ELSE successful)
    /\ failed' = (IF ret THEN failed ELSE failed + 1)

\* the loop, had a failed identifier ended it
ReturnToLoopStopOnFailure(ret, why, st) ==
    /\ steps' = st
    /\ outcomes' = Append(outcomes,
                     [id |-> ids[idx], ret |-> ret, why |-> why, steps |-> st,
                      filename |-> model_info'.filename.val])
    /\ Tally(ret)
    /\ idx' = idx + 1
    /\ pc' = (IF ret THEN "loop" ELSE "done")

\* download_civitai_model returns `ret` after the calls `st`; the loop tallies it
\* and moves to the next identifier
ReturnToLoop(ret, why, st) ==
    /\ steps' = st
    /\ outcomes' = Append(outcomes,
                     [id |-> ids[idx], ret |-> ret, why |-> why, steps |-> st,
                      filename |-> model_info'.filename.val])
    /\ Tally(ret)
    /\ idx' = idx + 1
    /\ pc' = "loop"

\* the guard and the list comprehension at the head of process_civitai_downloads
Start ==
    /\ pc = "start"
    /\ op = "civitai"
    /\ IF download_list = <<>>
       THEN /\ pc' = "done"
            /\ returned' = "True"
            /\ UNCHANGED <<ids, idx>>
       ELSE /\ pc' = "loop"
            /\ ids' = ParseIds(download_list)
            /\ idx' = 1
            /\ UNCHANGED returned
    /\ UNCHANGED <<op, download_list, run, successful, failed, model_info, steps,
                   outcomes, models, staging, accepted, moved>>

\* the next identifier: download_civitai_model up to the metadata test
Resolve ==
    /\ pc = "loop"
    /\ idx <= Len(ids)
    /\ IF ids[idx] = <<>>
       THEN /\ model_info' = NoInfo
            /\ ReturnToLoop(TRUE, "blank", <<>>)
       ELSE \E resp \in Responses :
              /\ model_info' = GetCivitaiModelInfo(resp)
              /\ IF Usable(model_info')
                 THEN /\ steps' = <<ResolveCall(resp, TRUE)>>
                      /\ pc' = "exists"
                      /\ UNCHANGED <<outcomes, successful, failed, idx>>
                 ELSE ReturnToLoop(FALSE, "no_metadata", <<ResolveCall(resp, FALSE)>>)
    /\ UNCHANGED <<op, download_list, run, ids, models, staging, accepted, moved, returned>>

\* the pre-flight existence check
CheckExists ==
    /\ pc = "exists"
    /\ model_info' = model_info
    /\ IF FileExistsInModels(models, staging, model_info.filename.val)
       THEN ReturnToLoop(TRUE, "exists", Append(steps, Call("exists", TRUE)))
       ELSE /\ steps' = Append(steps, Call("exists", FALSE))
            /\ pc' = "transfer"
            /\ UNCHANGED <<outcomes, successful, failed, idx>>
    /\ UNCHANGED <<op, download_list, run, ids, models, staging, accepted, moved, returned>>

\* what follows a zero exit of aria2c, had the hash test been left out
AfterTransferAlwaysVerify(remote_hash, st) ==
    /\ steps' = st
    /\ pc' = "verify"
    /\ UNCHANGED <<outcomes, successful, failed, idx>>

\* what follows a zero exit of aria2c: verify when a hash is known, accept otherwise
AfterTransfer(remote_hash, st) ==
    IF remote_hash # <<>>
    THEN /\ steps' = st
         /\ pc' = "verify"
         /\ UNCHANGED <<outcomes, successful, failed, idx>>
    ELSE ReturnToLoop(TRUE, "completed", st)

\* the except branch for aria2c, had it gone on to verify the partial file
TransferFailedThenVerify(st) ==
    /\ steps' = st
    /\ pc' = "verify"
    /\ UNCHANGED <<outcomes, successful, failed, idx>>

\* the except branch for a non-zero exit of aria2c
TransferFailed(st) == ReturnToLoop(FALSE, "transfer_failed", st)

\* subprocess.run(aria2c ..., check=True) and what follows it
Transfer ==
    /\ pc = "transfer"
    /\ model_info' = model_info
    /\ LET filename == model_info.filename.val
       IN \/ \E d \in Digests :
               /\ staging' = [staging EXCEPT ![filename] = Complete(d)]
               /\ AfterTransfer(model_info.hash, Append(steps, Call("aria2c", TRUE)))
          \/ \E left \in {staging[filename], Partial} :
               /\ staging' = [staging EXCEPT ![filename] = left]
               /\ TransferFailed(Append(steps, Call("aria2c", FALSE)))
    /\ UNCHANGED <<op, download_list, run, ids, models, accepted, moved, returned>>

\* the checksum branch that keeps a file whose check failed
AfterVerifyKeepFile(passed, filename, st) ==
    IF passed
    THEN /\ UNCHANGED staging
         /\ ReturnToLoop(TRUE, "completed", st)
    ELSE /\ UNCHANGED staging
         /\ ReturnToLoop(FALSE, "checksum_failed", Append(st, Call("unlink", TRUE)))

\* the checksum branch: accept, or unlink(missing_ok=True) and fail
AfterVerify(passed, filename, st) ==
    IF passed
    THEN /\ UNCHANGED staging
         /\ ReturnToLoop(TRUE, "completed", st)
    ELSE /\ staging' = [staging EXCEPT ![filename] = Absent]
         /\ ReturnToLoop(FALSE, "checksum_failed", Append(st, Call("unlink", TRUE)))

\* _verify_checksum on the staged file and what follows it
Verify ==
    /\ pc = "verify"
    /\ model_info' = model_info
    /\ \E io_ok \in BOOLEAN :
         LET filename == model_info.filename.val
         IN AfterVerify(VerifyChecksum(staging[filename], model_info.hash, io_ok),
                        filename,
                        Append(steps, Sha256sumCall(Sha256sum(staging[filename], io_ok))))
    /\ UNCHANGED <<op, download_list, run, ids, models, accepted, moved, returned>>

\* the end of the loop: log the tally, return True
Finish ==
    /\ pc = "loop"
    /\ idx > Len(ids)
    /\ pc' = "done"
    /\ returned' = "True"
    /\ UNCHANGED <<op, download_list, run, ids, idx, successful, failed, model_info,
                   steps, outcomes, models, staging, accepted, moved>>

----------------------------------------------------------------------------
(* download_hf_repos *)

HfStart ==
    /\ pc = "start"
    /\ op = "hf"
    /\ IF download_list = <<>>
       THEN /\ pc' = "done"
            /\ returned' = "True"
            /\ UNCHANGED <<ids, idx>>
       ELSE /\ pc' = "hf_loop"
            /\ ids' = ParseIds(download_list)
            /\ idx' = 1
            /\ UNCHANGED returned
    /\ UNCHANGED <<op, download_list, run, successful, failed, model_info, steps,
                   outcomes, models, staging, accepted, moved>>

\* a non-zero exit of huggingface-cli, had it ended the loop
HfAfterExitStop(exit) ==
    IF exit = 0
    THEN /\ idx' = idx + 1
         /\ pc' = "hf_loop"
         /\ UNCHANGED returned
    ELSE /\ idx' = idx + 1
         /\ pc' = "done"
         /\ returned' = "False"

\* after huggingface-cli: log, and `continue` on CalledProcessError
HfAfterExit(exit) ==
    /\ idx' = idx + 1
    /\ pc' = "hf_loop"
    /\ UNCHANGED returned

\* one iteration of the loop over repos
HfDownload ==
    /\ pc = "hf_loop"
    /\ idx <= Len(ids)
    /\ \E exit \in {0, 1} :
         /\ outcomes' = Append(outcomes,
                          [id |-> ids[idx], ret |-> (exit = 0), why |-> "hf",
                           steps |-> <<Call("huggingface-cli", exit = 0)>>, filename |-> <<>>])
         /\ HfAfterExit(exit)
    /\ UNCHANGED <<op, download_list, run, ids, successful, failed, model_info, steps,
                   models, staging, accepted, moved>>

HfFinish ==
    /\ pc = "hf_loop"
    /\ idx > Len(ids)
    /\ pc' = "done"
    /\ returned' = "True"
    /\ UNCHANGED <<op, download_list, run, ids, idx, successful, failed, model_info,
                   steps, outcomes, models, staging, accepted, moved>>

----------------------------------------------------------------------------
(* Between invocations *)

\* where an organiser puts a staged file
OrganizeDirs == { <<"checkpoints">> }

\* a staged, complete file is moved into the models tree
Organize ==
    /\ pc = "done"
    /\ op = "civitai"
    /\ \E f \in FileNames, d \in OrganizeDirs :
         /\ staging[f].state = "complete"
         /\ models' = [root |-> TRUE, entries |-> models.entries \cup {File(d, f)}]
         /\ staging' = [staging EXCEPT ![f] = Absent]
         /\ moved' = moved \cup {f}
    /\ UNCHANGED <<op, download_list, pc, run, ids, idx, successful, failed, model_info,
                   steps, outcomes, accepted, returned>>

\* what this invocation downloaded and accepted
AcceptedNow ==
    { <<outcomes[i].id, outcomes[i].filename>> :
        i \in {j \in 1..Len(outcomes) : outcomes[j].why = "completed"} }

\* the script runs again on the same list: a new PhoenixDownloader, the same disk
Rerun ==
    /\ pc = "done"
    /\ run < MaxRuns
    /\ run' = run + 1
    /\ pc' = "start"
    /\ accepted' = accepted \cup AcceptedNow
    /\ ids' = <<>>
    /\ idx' = 0
    /\ successful' = 0
    /\ failed' = 0
    /\ model_info' = NoInfo
    /\ steps' = <<>>
    /\ outcomes' = <<>>
    /\ returned' = "none"
    /\ UNCHANGED <<op, download_list, models, staging, moved>>

----------------------------------------------------------------------------

Step ==
    \/ Start
    \/ Resolve
    \/ CheckExists
    \/ Transfer
    \/ Verify
    \/ Finish
    \/ HfStart
    \/ HfDownload
    \/ HfFinish

\* one invocation of an entry point, for every identifier list
Spec == Init /\ [][Step]_vars

\* the interpreter keeps executing the entry point, and every external call returns
FairSpec == Spec /\ WF_vars(Step)

\* identifier lists of the repeated invocations: "a" and "a,b"
RerunLists == { <<"a">>, <<"a", ",", "b">> }

InitRuns == Init /\ op = "civitai" /\ download_list \in RerunLists

NextRuns ==
    \/ Start
    \/ Resolve
    \/ CheckExists
    \/ Transfer
    \/ Verify
    \/ Finish
    \/ Organize
    \/ Rerun

\* repeated invocations over one disk
RunsSpec == InitRuns /\ [][NextRuns]_vars

----------------------------------------------------------------------------
(* Vocabulary of the properties *)

\* The identifiers a list denotes, read off the positions of its commas: the pieces
\* between consecutive commas, each cut down to the span from its first to its last
\* non-whitespace character, the pieces without such a character left out.
PieceStarts(s) == {0} \cup {i \in 1..Len(s) : s[i] = ","}
PieceEnd(s, b) ==
    LET after == {i \in (b + 1)..Len(s) : s[i] = ","}
    IN IF after = {} THEN Len(s) + 1 ELSE CHOOSE i \in after : \A j \in after : i <= j
Inked(s, b) == {i \in (b + 1)..(PieceEnd(s, b) - 1) : s[i] \notin Whitespace}
SetMin(S) == CHOOSE x \in S : \A y \in S : x <= y
SetMax(S) == CHOOSE x \in S : \A y \in S : x >= y
ExpectedIds(s) ==
    LET E == {b \in PieceStarts(s) : Inked(s, b) # {}}
    IN [k \in 1..Cardinality(E) |->
          LET b == CHOOSE x \in E : Cardinality({y \in E : y <= x}) = k
          IN SubSeq(s, SetMin(Inked(s, b)), SetMax(Inked(s, b)))]

\* a regular file named exactly `filename` is somewhere under the tree
FilePresent(tree, filename) ==
    \E e \in tree.entries : e.kind = "file" /\ e.name = filename

IsPrefix(p, q) == Len(p) <= Len(q) /\ \A i \in 1..Len(p) : p[i] = q[i]

OutcomeIds == [i \in 1..Len(outcomes) |-> outcomes[i].id]

Calls(st) == [i \in 1..Len(st) |-> st[i].call]
Called(st, call) == \E i \in 1..Len(st) : st[i].call = call
CallOf(st, call) == st[CHOOSE i \in 1..Len(st) : st[i].call = call]

\* download_civitai_model has just returned for the identifier `steps` and
\* `model_info` describe, and nothing ran since
JustReturned ==
    /\ op = "civitai"
    /\ pc \in {"loop", "done"}
    /\ outcomes # <<>>
    /\ steps = outcomes[Len(outcomes)].steps

LastOutcome == outcomes[Len(outcomes)]

CivitaiOutcomes == IF op = "civitai" THEN 1..Len(outcomes) ELSE {}

\* the SHA256 the API published for the identifier of the calls `st`, as published
Published(st) ==
    LET resp == CallOf(st, "resolve").resp
    IN IF resp.hashes /\ resp.sha.present THEN resp.sha.val ELSE <<>>

\* equality of two hexadecimal strings up to the case of their letters
SameHex(x, y) ==
    /\ Len(x) = Len(y)
    /\ \A i \in 1..Len(x) :
         \E c \in {"a", "b", "c", "d"} : LowerChar(x[i]) = c /\ LowerChar(y[i]) = c

----------------------------------------------------------------------------
(* C1 *)

\* C1: an identifier whose resolved filename names a regular file somewhere under
\* STORAGE_ROOT/models never reaches aria2c or the verifier and is returned as a
\* success.  (Spec never changes the models tree.)
C1_PresentFileIsSkipped ==
    /\ \A i \in CivitaiOutcomes :
         (/\ CallOf(outcomes[i].steps, "resolve").ok
          /\ FilePresent(models, outcomes[i].filename))
         => /\ outcomes[i].ret
            /\ ~Called(outcomes[i].steps, "aria2c")
            /\ ~Called(outcomes[i].steps, "sha256sum")
    /\ (pc \in {"transfer", "verify"}) => ~FilePresent(models, model_info.filename.val)

----------------------------------------------------------------------------
(* C2 *)

\* C2: for an artifact with a published hash H whose transfer exited with status
\* zero: when sha256sum fails or prints a digest other than H up to case, the
\* artifact is returned failed and, right after, its file is absent from the staging
\* directory; when it prints H up to case, the artifact is returned successful and
\* the file is still staged with that digest.
C2_VerifyDecides ==
    \A i \in CivitaiOutcomes :
      LET o == outcomes[i]
          H == Published(o.steps)
      IN (Called(o.steps, "aria2c") /\ CallOf(o.steps, "aria2c").ok /\ H # <<>>)
         => /\ Called(o.steps, "sha256sum")
            /\ LET sum == CallOf(o.steps, "sha256sum")
               IN IF sum.ok /\ SameHex(sum.stdout, H)
                  THEN /\ o.ret
                       /\ ~Called(o.steps, "unlink")
                       /\ (JustReturned /\ i = Len(outcomes))
                          => staging[o.filename] = Complete(sum.stdout)
                  ELSE /\ ~o.ret
                       /\ o.why = "checksum_failed"
                       /\ (JustReturned /\ i = Len(outcomes))
                          => staging[o.filename].state = "absent"

\* a mismatch against an upper-case published hash was rejected and cleaned up, after
\* an earlier identifier's digest matched one up to case and was kept
C2_Witness ==
    /\ JustReturned
    /\ Len(outcomes) = 2
    /\ Published(outcomes[1].steps) = <<"A", "B">>
    /\ outcomes[1].why = "completed"
    /\ CallOf(outcomes[1].steps, "sha256sum").stdout = <<"a", "b">>
    /\ outcomes[2].why = "checksum_failed"
    /\ Published(outcomes[2].steps) = <<"A", "B">>
    /\ CallOf(outcomes[2].steps, "sha256sum").stdout = <<"c", "d">>
    /\ staging[outcomes[2].filename].state = "absent"

----------------------------------------------------------------------------
(* C3 *)

\* C3: for an artifact whose metadata publishes no SHA-256 digest the resolver
\* yields the empty hash, and every transfer that exits with status zero is returned
\* successful with no sha256sum and no unlink; right after, the file is staged.
C3_NoHashAccepted ==
    /\ \A i \in CivitaiOutcomes :
         LET o == outcomes[i]
         IN (/\ Called(o.steps, "aria2c")
             /\ CallOf(o.steps, "aria2c").ok
             /\ ~CallOf(o.steps, "resolve").resp.sha.present)
            => /\ o.ret
               /\ o.why = "completed"
               /\ Calls(o.steps) = <<"resolve", "exists", "aria2c">>
               /\ (JustReturned /\ i = Len(outcomes))
                  => /\ model_info.hash = <<>>
                     /\ staging[o.filename].state = "complete"
    /\ (pc = "verify") => CallOf(steps, "resolve").resp.sha.present

C3_Witness ==
    /\ JustReturned
    /\ LastOutcome.why = "completed"
    /\ CallOf(steps, "resolve").resp.hashes
    /\ ~CallOf(steps, "resolve").resp.sha.present
    /\ CallOf(steps, "aria2c").ok
    /\ staging[LastOutcome.filename].state = "complete"

----------------------------------------------------------------------------
(* C4 *)

\* the response gives no usable artifact: a request error, a status other than
\* 200, a body without a non-empty files list, or a first file without a name
NoArtifact(resp) ==
    \/ resp.kind # "ok"
    \/ resp.files # "list"
    \/ ~resp.name.present
    \/ resp.name.val = <<>>

\* C4: when resolution yields no usable artifact the identifier is returned failed
\* and the resolver's request is the only external call made for it.
C4_NoArtifactFails ==
    /\ \A i \in CivitaiOutcomes :
         LET o == outcomes[i]
         IN NoArtifact(CallOf(o.steps, "resolve").resp)
            => ~o.ret /\ Calls(o.steps) = <<"resolve">>
    /\ (pc \in {"exists", "transfer", "verify"})
       => ~NoArtifact(CallOf(steps, "resolve").resp)

\* a first file with an empty name, after an identifier whose request failed
C4_Witness ==
    /\ JustReturned
    /\ Len(outcomes) = 2
    /\ CallOf(outcomes[1].steps, "resolve").resp.kind = "request_error"
    /\ CallOf(outcomes[2].steps, "resolve").resp.files = "list"
    /\ CallOf(outcomes[2].steps, "resolve").resp.name = Field(<<>>)
    /\ ~outcomes[2].ret
    /\ failed = 2

----------------------------------------------------------------------------
(* C5 *)

\* C5: whatever the outcome of each identifier (resolution failure, non-zero exit of
\* aria2c, checksum mismatch), process_civitai_downloads takes the non-blank
\* identifiers one by one in list order, none twice, and eventually reaches the end
\* of the list having processed all of them.
C5_BatchRunsToTheEnd ==
    (op = "civitai")
    => /\ [](/\ IsPrefix(OutcomeIds, ids)
             /\ (pc \in {"loop", "exists", "transfer", "verify"})
                => idx = Len(outcomes) + 1)
       /\ <>(pc = "done" /\ OutcomeIds = ExpectedIds(download_list))

\* the end of a list whose first identifier failed in transfer and whose second
\* failed verification
C5_Witness ==
    /\ op = "civitai"
    /\ pc = "done"
    /\ Len(outcomes) = 2
    /\ outcomes[1].why = "transfer_failed"
    /\ outcomes[2].why = "checksum_failed"

----------------------------------------------------------------------------
(* C6 *)

Count(whys) == Cardinality({i \in 1..Len(outcomes) : outcomes[i].why \in whys})

\* C6: the tally counts as successful exactly the identifiers accepted or skipped as
\* already present, and as failed exactly those that failed resolution, transfer or
\* verification; when the batch finishes the two add up to the number of non-blank
\* identifiers of the list.
C6_Tally ==
    (op = "civitai")
    => /\ successful = Count({"completed", "exists"})
       /\ failed = Count({"no_metadata", "transfer_failed", "checksum_failed"})
       /\ (pc = "done") => successful + failed = Len(ExpectedIds(download_list))

\* list "a,b": a resolved, transferred and verified, b unresolved; the tally is (1, 1)
C6_Witness ==
    /\ op = "civitai"
    /\ pc = "done"
    /\ download_list = <<"a", ",", "b">>
    /\ Len(outcomes) = 2
    /\ outcomes[1].why = "completed"
    /\ Calls(outcomes[1].steps) = <<"resolve", "exists", "aria2c", "sha256sum">>
    /\ outcomes[2].why = "no_metadata"
    /\ Calls(outcomes[2].steps) = <<"resolve">>
    /\ successful = 1
    /\ failed = 1

----------------------------------------------------------------------------
(* C7 *)

NonBlank(id) == \E i \in 1..Len(id) : id[i] \notin Whitespace

\* C7: in both entry points the identifiers processed are the entries of the list
\* with surrounding whitespace stripped and the empty or whitespace-only entries
\* removed, in their order; what reaches the resolver or huggingface-cli is never
\* blank.
C7_IdsAreTheNonBlankEntries ==
    /\ (pc # "start") => ids = ExpectedIds(download_list)
    /\ IsPrefix(OutcomeIds, ExpectedIds(download_list))
    /\ (pc = "done") => OutcomeIds = ExpectedIds(download_list)
    /\ \A i \in 1..Len(outcomes) : NonBlank(outcomes[i].id) /\ outcomes[i].steps # <<>>
    /\ (pc \in {"exists", "transfer", "verify"})
       => ids[idx] = ExpectedIds(download_list)[Len(outcomes) + 1]

\* "a, ,b" was processed as exactly "a" then "b"
C7_Witness ==
    /\ download_list = <<"a", ",", " ", ",", "b">>
    /\ pc = "done"
    /\ OutcomeIds = << <<"a">>, <<"b">> >>

----------------------------------------------------------------------------
(* C8 *)

\* the identifier `steps` and `model_info` describe
CurId ==
    IF pc \in {"exists", "transfer", "verify"} THEN ids[idx] ELSE LastOutcome.id

\* `steps` describe an identifier that an earlier invocation downloaded and accepted
\* under the filename it resolves to now
AcceptedBefore ==
    /\ run > 1
    /\ steps # <<>>
    /\ <<CurId, model_info.filename.val>> \in accepted

\* C8 as stated: in a later invocation, an identifier whose accepted download is
\* still on disk, nothing else having changed, never gets to the transfer.
C8_StagedFileIsFound ==
    ~(/\ AcceptedBefore
      /\ moved = {}
      /\ staging[model_info.filename.val].state = "complete"
      /\ pc = "transfer")

\* C8 amended: an accepted download stays in the staging directory, which the
\* existence check does not search.  In a later invocation of the same identifier
\* with the same filename the check succeeds only if a regular file matching the
\* filename has meanwhile been put under STORAGE_ROOT/models; with the models tree
\* unchanged the check fails and the transfer is invoked again.
C8_OnlyModelsTreeDeduplicates ==
    (AcceptedBefore /\ Called(steps, "exists"))
    => /\ CallOf(steps, "exists").ok
          => /\ moved # {}
             /\ \E e \in models.entries :
                  e.kind = "file" /\ FnMatch(model_info.filename.val, e.name)
       /\ ~CallOf(steps, "exists").ok
          => (pc = "transfer" \/ Called(steps, "aria2c"))
       /\ (moved = {}) => ~CallOf(steps, "exists").ok

\* aria2c ran again for an identifier accepted before, the models tree untouched
C8_Witness ==
    /\ AcceptedBefore
    /\ moved = {}
    /\ Called(steps, "aria2c")

----------------------------------------------------------------------------
(* C9 *)

\* C9: download_hf_repos attempts every non-blank repository once, in list order,
\* whatever the exit statuses of huggingface-cli, and returns True.
C9_HfSkipsFailures ==
    (op = "hf")
    => /\ returned \in {"none", "True"}
       /\ IsPrefix(OutcomeIds, ExpectedIds(download_list))
       /\ \A i \in 1..Len(outcomes) : Calls(outcomes[i].steps) = <<"huggingface-cli">>
       /\ (pc = "done")
          => returned = "True" /\ OutcomeIds = ExpectedIds(download_list)

\* a second repository was attempted after the first one's non-zero exit
C9_Witness ==
    /\ op = "hf"
    /\ pc = "done"
    /\ returned = "True"
    /\ Len(outcomes) = 2
    /\ ~outcomes[1].ret
    /\ outcomes[2].ret

----------------------------------------------------------------------------
(* C10 *)

StepOrder == <<"resolve", "exists", "aria2c", "sha256sum", "unlink">>

InOrder(st) ==
    /\ IsPrefix(Calls(st), StepOrder)
    /\ Called(st, "sha256sum") => CallOf(st, "aria2c").ok

\* C10: the calls made for one identifier follow the order resolve, existence
\* check, aria2c, sha256sum; sha256sum runs only after aria2c exited with status
\* zero for that identifier; a non-zero exit returns the identifier failed with
\* neither sha256sum nor unlink called.
C10_StepOrder ==
    (op = "civitai")
    => /\ InOrder(steps)
       /\ \A i \in 1..Len(outcomes) :
            LET o == outcomes[i]
            IN /\ InOrder(o.steps)
               /\ (Called(o.steps, "aria2c") /\ ~CallOf(o.steps, "aria2c").ok)
                  => /\ ~o.ret
                     /\ o.why = "transfer_failed"
                     /\ Calls(o.steps) = <<"resolve", "exists", "aria2c">>

\* a non-zero exit left a partial file in the staging directory
C10_Witness ==
    /\ JustReturned
    /\ LastOutcome.why = "transfer_failed"
    /\ ~CallOf(steps, "aria2c").ok
    /\ staging[LastOutcome.filename] = Partial
    /\ failed = 1

====
